---- MODULE Spec2Model ----
(***************************************************************************)
(* A model of plaso's plugin-dispatch parsing engine:                      *)
(*   - TextPlugin (parsers/text_plugins/interface.py): the line-scanning   *)
(*     loop _ParseLines, the grammar scan _ParseString, the grammar        *)
(*     compilation _SetLineStructures and the encoding error handler;      *)
(*   - WinFirewallLogTextPlugin (parsers/text_plugins/winfirewall.py);     *)
(*   - PlistParser (parsers/plist.py).                                     *)
(*                                                                         *)
(* Text is a sequence of one-character strings over a small alphabet in    *)
(* which a character stands for a whole token of a firewall log:           *)
(*   "D"  a well-formed data record (date, time and the 15 other fields)   *)
(*   "B"  a data record that matches the grammar but whose six date/time   *)
(*        numbers are no valid date (TimeElements raises ValueError)       *)
(*   "#"  the text "#" (the comment marker)                                *)
(*   "V"  the text "#Version: 1.5"     "S"  the text "#Software: fw"       *)
(*   "T"  the text "#Time: Local"      "t"  the text "#Time: GMT"          *)
(*   "x"  any other text (matches no grammar)                              *)
(*   NL   the line terminator                                              *)
(***************************************************************************)
EXTENDS Integers, Sequences, FiniteSets, TLC

VARIABLES
  \* ---- WinFirewallLogTextPlugin instance (one instance, reused) ----
  software,                  \* self._software
  version,                   \* self._version
  use_local_timezone,        \* self._use_local_timezone
  parser_mediator,           \* self._parser_mediator (TextPlugin)
  \* ---- one call of TextPlugin.Process / _ParseLines ----
  pc,                        \* "idle" (outside Process) or "loop" (at the while test)
  reader,                    \* the EncodedTextReader: its lines buffer and its stream
  consecutive_line_failures, \* the local of _ParseLines
  abort,                     \* parser_mediator.abort
  \* ---- what the mediator has received, kept per step ----
  scan_end,                  \* how the last _ParseLines ended
  summary_warnings,          \* number of 'more than 20 consecutive failures' warnings of this scan
  step,                      \* what the last loop iteration did and published
  prev_failures,             \* consecutive_line_failures before the last loop iteration
  reused,                    \* TRUE once Process has been entered a second time on the instance
  handled,                   \* TRUE once _ParseRecord has been called in this scan
  local_header_handled,      \* TRUE once a '#Time' header containing 'local' was handled in this scan
  \* ---- one call of PlistParser.Parse ----
  parse_pc,                  \* the position in Parse
  file_size,                 \* file_object.get_size()
  closes,                    \* number of file_object.close() calls
  outcome,                   \* "running", "returned" or the exception Parse raised
  read_plist,                \* what binplist.readPlist did
  top_level_calls,           \* number of GetTopLevel calls
  plugin_index,              \* the position of the for loop over self._plugins
  called,                    \* the plugins whose Process was invoked
  signalled,                 \* the plugins that raised WrongPlistPlugin
  yielded,                   \* per plugin, the number of events its generator yielded
  produced,                  \* the ProduceEvent calls the mediator completed, in order
  failed_by,                 \* the plugin whose error left Parse, 0 when none
  \* ---- one _SetLineStructures and _ParseString of a plugin with literal grammars ----
  declared_structures,           \* the plugin's _LINE_STRUCTURES
  scan_string,               \* the string handed to _ParseString
  scan_done,                 \* whether _ParseString has been called
  scan_result,               \* what _ParseString returned or raised
  \* ---- one decode of a buffer under errors='text_parser_handler' ----
  encoding,                  \* self.ENCODING or parser_mediator.codepage
  buffer,                    \* the bytes to decode (exception.object)
  position,                  \* the decoder's position in buffer
  decoded,                   \* the text decoded so far
  handler_calls,             \* the calls of _EncodingErrorHandler: start, result
  decode_mediator,           \* self._parser_mediator during the decode
  current_offset,            \* self._current_offset during the decode
  decode_warnings,           \* the warnings the handler produced
  \* ---- one _ParseLines over a whole file, with its log ----
  file_text,                 \* the decoded text of the file
  text_reader,               \* the EncodedTextReader: lines, line_number, stream offset
  scan_pc,                   \* "idle", "loop" (at the while test) or "done"
  scan_failures,             \* consecutive_line_failures
  scan_abort,                \* parser_mediator.abort
  scan_offset,               \* self._current_offset
  scan_plugin,               \* the plugin's cross-record state
  scan_log,                  \* the loop iterations so far, as logged
  scan_outcome,              \* how _ParseLines ended
  \* ---- one call of WinFirewallLogTextPlugin._ParseRecord ----
  record_line,               \* the line scanned for the record
  record_key,                \* the key _ParseRecord is called with
  record_structure,          \* the tokens it is called with
  record_state,              \* the cross-record state before the call
  record_called,             \* "no", or how it was called: "scan" or "direct"
  record_result,             \* what the call did
  \* ---- the TextPlugin instances of one process ----
  instances,                 \* the number of instances constructed (1..instances)
  text_parser_handler,       \* the instance whose handler is registered, 0: none
  instance_mediator,         \* per instance, self._parser_mediator
  instance_offset,           \* per instance, self._current_offset
  in_process,                \* the instance inside Process, 0: none
  process_pc,                \* "none", "try" (in the try block) or "lines" (in _ParseLines)
  error_calls,               \* the calls of the registered error handler
  last_exit                  \* how the last call of Process ended

textVars == <<software, version, use_local_timezone, parser_mediator, pc, reader,
              consecutive_line_failures, abort, scan_end, summary_warnings, step,
              prev_failures, reused, handled, local_header_handled>>

plistVars == <<parse_pc, file_size, closes, outcome, read_plist, top_level_calls,
               plugin_index, called, signalled, yielded, produced, failed_by>>

grammarVars == <<declared_structures, scan_string, scan_done, scan_result>>

decodeVars == <<encoding, buffer, position, decoded, handler_calls, decode_mediator,
                current_offset, decode_warnings>>

scanVars == <<file_text, text_reader, scan_pc, scan_failures, scan_abort, scan_offset,
              scan_plugin, scan_log, scan_outcome>>

recordVars == <<record_line, record_key, record_structure, record_state, record_called,
                record_result>>

handlerVars == <<instances, text_parser_handler, instance_mediator, instance_offset,
                 in_process, process_pc, error_calls, last_exit>>

vars == <<textVars, plistVars, grammarVars, decodeVars, scanVars, recordVars, handlerVars>>

----------------------------------------------------------------------------
\* Program constants.
MAXIMUM_CONSECUTIVE_LINE_FAILURES == 20

NL == "\n"

\* The tokens that begin with the comment marker.
CommentMarks == {"#", "V", "S", "T", "t"}

\* The logical lines the stream delivers: an empty line, a line of other text,
\* the records of either kind, records behind or before other text on their
\* line, and headers that hold a second header in their text.
LineText ==
  {<<>>, <<"x">>, <<"D">>, <<"B">>, <<"#">>, <<"V">>, <<"S">>, <<"T">>, <<"t">>,
   <<"x", "D">>, <<"D", "x">>, <<"t", "T">>, <<"#", "T">>}

None == "None"

----------------------------------------------------------------------------
\* pyparsing expressions, as far as the scan depends on them.

\* A line structure's expression: the firewall plugin's two, and a literal
\* (pyparsing.Literal) for grammars with overlapping alternatives. "group" says
\* that the expression is already a pyparsing.Group (then it gets no results name).
Expr(kind, text, group) == [kind |-> kind, text |-> text, group |-> group]

COMMENT_LINE == Expr("comment_line", <<>>, FALSE)
LOG_LINE == Expr("log_line", <<>>, FALSE)

LINE_STRUCTURES == << <<"comment", COMMENT_LINE>>, <<"logline", LOG_LINE>> >>

SUPPORTED_KEYS_CommentOnly == {"comment"}

\* _SUPPORTED_KEYS = frozenset([key for key, _ in _LINE_STRUCTURES])
SUPPORTED_KEYS == {LINE_STRUCTURES[i][1] : i \in 1..Len(LINE_STRUCTURES)}

\* Index (1-based) of the first NL of s at or after index i, Len(s) + 1 when none.
LineEnd(s, i) ==
  LET terminators == {j \in i..Len(s) : s[j] = NL}
  IN IF terminators = {} THEN Len(s) + 1
     ELSE CHOOSE j \in terminators : \A k \in terminators : j <= k

\* The end offset (0-based, exclusive) of expression e matched at offset loc of
\* s, -1 when e does not match there.
MatchEnd(e, s, loc) ==
  IF loc >= Len(s) THEN -1
  ELSE IF e.kind = "comment_line"
    \* Literal('#') + SkipTo(LineEnd()): up to, not including, the terminator.
    THEN IF s[loc + 1] \in CommentMarks THEN LineEnd(s, loc + 2) - 1 ELSE -1
  ELSE IF e.kind = "log_line"
    THEN IF s[loc + 1] \in {"D", "B"} THEN loc + 1 ELSE -1
  ELSE \* a literal
    IF /\ Len(e.text) > 0
       /\ loc + Len(e.text) <= Len(s)
       /\ SubSeq(s, loc + 1, loc + Len(e.text)) = e.text
    THEN loc + Len(e.text) ELSE -1

OrChoiceFirstDeclared(ends) ==
  LET matching == {i \in 1..Len(ends) : ends[i] >= 0}
  IN IF matching = {} THEN 0
     ELSE CHOOSE i \in matching : \A j \in matching : i <= j

\* pyparsing.Or (the ^ operator): of the alternatives that match, the one that
\* matches the longest span; of several of that length, the first declared.
\* ends[i] is alternative i's end offset, -1 when it does not match. 0: none.
OrChoice(ends) ==
  LET matching == {i \in 1..Len(ends) : ends[i] >= 0}
      longest == {i \in matching : \A j \in matching : ends[j] <= ends[i]}
  IN IF matching = {} THEN 0
     ELSE CHOOSE i \in longest : \A j \in longest : i <= j

\* _SetLineStructures: every expression that is no Group is wrapped in a Group
\* named by its key; the alternatives are combined with ^ in declaration order.
SetLineStructures(line_structures) ==
  [i \in 1..Len(line_structures) |->
     [keys |-> IF line_structures[i][2].group THEN <<>> ELSE <<line_structures[i][1]>>,
      expr |-> line_structures[i][2]]]

\* The compiled grammar matched at one offset: the alternative chosen (0: none).
AltAt(grammar, s, loc) ==
  OrChoice([i \in 1..Len(grammar) |-> MatchEnd(grammar[i].expr, s, loc)])

\* scanString(string, maxMatches=1): the first offset at which the grammar
\* matches, -1 when there is none.
ScanFrom(grammar, s, loc) ==
  LET matches == {l \in loc..(Len(s) - 1) : AltAt(grammar, s, l) # 0}
  IN IF matches = {} THEN -1
     ELSE CHOOSE l \in matches : \A k \in matches : l <= k

ParseError(message) ==
  [ok |-> FALSE, error |-> message, key |-> None, structure |-> <<>>, start |-> -1, end |-> -1]

ParseStringEndAtStart(grammar, string) ==
  LET start == ScanFrom(grammar, string, 0)
      alt == AltAt(grammar, string, start)
      end == MatchEnd(grammar[alt].expr, string, start)
      keys == grammar[alt].keys
  IN IF start < 0 THEN ParseError("No match found.")
     ELSE IF start > 0 /\ \E i \in 1..(start + 1) : string[i] = NL
       THEN ParseError("Found a line preceeding match.")
     ELSE IF Len(keys) # 1 THEN ParseError("Missing key of line structructure.")
     ELSE [ok |-> TRUE, error |-> None, key |-> keys[1],
           structure |-> SubSeq(string, start + 1, end), start |-> start, end |-> start]

\* TextPlugin._ParseString: key, tokens, start and end offset, or a ParseError.
ParseString(grammar, string) ==
  LET start == ScanFrom(grammar, string, 0)
      alt == AltAt(grammar, string, start)
      end == MatchEnd(grammar[alt].expr, string, start)
      keys == grammar[alt].keys
  IN IF start < 0 THEN ParseError("No match found.")
     ELSE IF start > 0 /\ \E i \in 1..(start + 1) : string[i] = NL
       THEN ParseError("Found a line preceeding match.")
     ELSE IF Len(keys) # 1 THEN ParseError("Missing key of line structructure.")
     ELSE [ok |-> TRUE, error |-> None, key |-> keys[1],
           structure |-> SubSeq(string, start + 1, end), start |-> start, end |-> end]
----------------------------------------------------------------------------
\* The EncodedTextReader (plaso.parsers.text_parser) over its stream. The text
\* of the stream is drawn when the scan first looks at it, one logical line at a
\* time; of the lines buffer the reader keeps
\*   head  the text at the front of the buffer that the scan has looked at
\*   open  whether the buffer holds text behind head that it has not looked at
\*   nl    (not open) whether the terminator of head's line is in the buffer
\*   rest  (not open) whether the buffer holds text behind that terminator
\*   eof   whether the underlying stream is exhausted

Reader(head, nl, rest, eof, open) ==
  [head |-> head, nl |-> nl, rest |-> rest, eof |-> eof, open |-> open]

\* A reader as constructed, over a stream that is empty (eof) or not.
NewReader(eof) == Reader(<<>>, FALSE, FALSE, eof, FALSE)

\* not text_reader.lines
EmptyLines(r) == r.head = <<>> /\ ~r.nl /\ ~r.open

IsPrefix(s, t) == Len(s) <= Len(t) /\ SubSeq(t, 1, Len(s)) = s

\* The first logical line of the buffer, looked at: the text behind head is one
\* of the texts the stream can hold there (at least one character of it).
Reveal(r) ==
  IF ~r.open THEN {r}
  ELSE {q \in {Reader(h, n, m, r.eof, FALSE) :
                 h \in {l \in LineText : IsPrefix(r.head, l)},
                 n \in BOOLEAN, m \in BOOLEAN} :
          /\ q.rest => q.nl
          /\ q.head # r.head \/ q.nl}

\* text_reader.lines as far as _ParseString can accept a match in it: the first
\* logical line (a match that begins behind a terminator is never accepted).
Lines(r) == r.head \o (IF r.nl THEN <<NL>> ELSE <<>>)

\* ReadLines(): fills the buffer from the stream; the readers it can leave.
\* A stream that is not exhausted delivers at least one character when the
\* buffer has room (it has when it holds no more than one line).
ReadLines(r) ==
  IF r.eof THEN {r}
  ELSE IF r.open \/ (r.nl /\ r.rest) THEN {r, [r EXCEPT !.eof = TRUE]}
  ELSE IF r.nl THEN {[r EXCEPT !.rest = TRUE, !.eof = e] : e \in BOOLEAN}
  ELSE {[r EXCEPT !.open = TRUE, !.eof = e] : e \in BOOLEAN}

\* ReadLine(): takes the first logical line and its terminator off the buffer:
\* the line and the reader it leaves.
ReadLine(r) == <<r.head, Reader(<<>>, FALSE, FALSE, r.eof, r.rest)>>

\* SkipAhead(number_of_characters): drops that many characters of the buffer.
SkipAhead(r, number_of_characters) ==
  [r EXCEPT !.head = SubSeq(r.head, number_of_characters + 1, Len(r.head))]

----------------------------------------------------------------------------
\* WinFirewallLogTextPlugin: the cross-record state and the record handlers.

PluginState(sw, ver, local) == [software |-> sw, version |-> ver, use_local_timezone |-> local]

\* WinFirewallLogTextPlugin.__init__
InitialPluginState == PluginState(None, None, FALSE)

\* comment.startswith(word), comment = structure[1] the text behind the '#':
\* the record's first token is the header that begins with that word.
StartsWith(structure, tokens) == structure[1] \in tokens

TimeFormatHasLocalAlways(structure) == TRUE

\* 'local' in time_format.lower(), time_format the text behind the first ':':
\* of the tokens only "T" ("#Time: Local") holds the word, behind its colon.
TimeFormatHasLocal(structure) == \E i \in 1..Len(structure) : structure[i] = "T"

\* _ParseCommentRecord
ParseCommentRecord(st, structure) ==
  IF StartsWith(structure, {"V"}) THEN [st EXCEPT !.version = "value"]
  ELSE IF StartsWith(structure, {"S"}) THEN [st EXCEPT !.software = "value"]
  ELSE IF StartsWith(structure, {"T", "t"})
    THEN IF TimeFormatHasLocal(structure)
         THEN [st EXCEPT !.use_local_timezone = TRUE] ELSE st
  ELSE st

\* What a record handler hands to the mediator and leaves in the plugin.
Handled(st, events, warnings, raised) ==
  [st |-> st, events |-> events, warnings |-> warnings, raised |-> raised]

ParseLogLineAnyDate(st, structure) ==
  Handled(st, <<IF st.use_local_timezone THEN "mediator.timezone" ELSE "UTC">>, <<>>, FALSE)

ParseLogLineWarnsAndPublishes(st, structure) ==
  Handled(st, <<IF st.use_local_timezone THEN "mediator.timezone" ELSE "UTC">>,
          IF structure[1] = "B" THEN <<"invalid date time value">> ELSE <<>>, FALSE)

\* _ParseLogLine: one event in the zone the cross-record mode selects, or the
\* 'invalid date time value' warning.
ParseLogLine(st, structure) ==
  IF structure[1] = "B"
  THEN Handled(st, <<>>, <<"invalid date time value">>, FALSE)
  ELSE Handled(st, <<IF st.use_local_timezone THEN "mediator.timezone" ELSE "UTC">>,
               <<>>, FALSE)

\* WinFirewallLogTextPlugin._ParseRecord
ParseRecord(st, key, structure) ==
  IF key \notin SUPPORTED_KEYS THEN Handled(st, <<>>, <<>>, TRUE)
  ELSE IF key = "comment" THEN Handled(ParseCommentRecord(st, structure), <<>>, <<>>, FALSE)
  ELSE IF key = "logline" THEN ParseLogLine(st, structure)
  ELSE Handled(st, <<>>, <<>>, FALSE)
----------------------------------------------------------------------------
\* TextPlugin.Process and _ParseLines, one action per path of a loop iteration.

Step(kind, key, events, warnings) ==
  [kind |-> kind, key |-> key, events |-> events, warnings |-> warnings]

PluginNow == PluginState(software, version, use_local_timezone)

notText == <<plistVars, grammarVars, decodeVars, scanVars, recordVars, handlerVars>>

notScan == <<textVars, plistVars, grammarVars, decodeVars, recordVars, handlerVars>>

pluginVars == <<software, version, use_local_timezone>>
scanGhost == <<handled, local_header_handled>>

\* The grammar the constructor compiles (TextPlugin.__init__).
pyparsing_grammar == SetLineStructures(LINE_STRUCTURES)

\* Whether a handled record is a '#Time' header whose value contains 'local'.
IsLocalTimeHeader(key, structure) ==
  /\ key = "comment"
  /\ \/ structure[1] = "T"
     \/ structure[1] = "t" /\ "T" \in {structure[i] : i \in 2..Len(structure)}

\* The finally clause of Process: the scan is over.
Leave(how) ==
  /\ pc' = "idle"
  /\ parser_mediator' = None
  /\ scan_end' = how

TextInit ==
  /\ software = InitialPluginState.software
  /\ version = InitialPluginState.version
  /\ use_local_timezone = InitialPluginState.use_local_timezone
  /\ parser_mediator = None
  /\ pc = "idle"
  /\ reader = NewReader(TRUE)
  /\ consecutive_line_failures = 0
  /\ abort = FALSE
  /\ scan_end = "none"
  /\ summary_warnings = 0
  /\ step = Step("none", None, <<>>, <<>>)
  /\ prev_failures = 0
  /\ reused = FALSE
  /\ handled = FALSE
  /\ local_header_handled = FALSE

\* What entering Process sets, whatever follows.
Enter ==
  /\ pc = "idle"
  /\ abort' = FALSE
  /\ reused' = (scan_end # "none")
  /\ summary_warnings' = 0
  /\ handled' = FALSE
  /\ local_header_handled' = FALSE
  /\ consecutive_line_failures' = 0
  /\ prev_failures' = 0
  /\ UNCHANGED pluginVars

\* Process: seek(0) or the construction of the reader raises; finally runs.
ProcessRaises ==
  /\ UNCHANGED notText
  /\ Enter
  /\ Leave("raised")
  /\ step' = Step("begin", None, <<>>, <<>>)
  /\ UNCHANGED reader

\* Process, _ParseLines up to the loop: the first ReadLines raises
\* UnicodeDecodeError, one warning, return.
ProcessDecodeError ==
  /\ UNCHANGED notText
  /\ Enter
  /\ Leave("decode_error")
  /\ step' = Step("begin", None, <<>>, <<"unable to read and decode log line">>)
  /\ reader' = NewReader(FALSE)

\* Process, _ParseLines up to the loop: the buffer is filled.
ProcessBegin ==
  /\ UNCHANGED notText
  /\ Enter
  /\ parser_mediator' = "mediator"
  /\ \E e \in BOOLEAN : reader' \in ReadLines(NewReader(e))
  /\ pc' = "loop"
  /\ scan_end' = "running"
  /\ step' = Step("begin", None, <<>>, <<>>)

\* The mediator's abort flag is set from outside while the scan runs.
SignalAbort ==
  /\ UNCHANGED notText
  /\ pc = "loop"
  /\ ~abort
  /\ abort' = TRUE
  /\ UNCHANGED <<pluginVars, parser_mediator, pc, reader, consecutive_line_failures,
                 scan_end, summary_warnings, step, prev_failures, reused, scanGhost>>

\* while text_reader.lines: the buffer is empty.
LoopExit ==
  /\ UNCHANGED notText
  /\ pc = "loop"
  /\ EmptyLines(reader)
  /\ Leave("exhausted")
  /\ step' = Step("exit", None, <<>>, <<>>)
  /\ prev_failures' = consecutive_line_failures
  /\ UNCHANGED <<pluginVars, reader, consecutive_line_failures, abort, summary_warnings,
                 reused, scanGhost>>

\* if parser_mediator.abort: break
Cancel ==
  /\ UNCHANGED notText
  /\ pc = "loop"
  /\ ~EmptyLines(reader)
  /\ abort
  /\ Leave("cancelled")
  /\ step' = Step("cancel", None, <<>>, <<>>)
  /\ prev_failures' = consecutive_line_failures
  /\ UNCHANGED <<pluginVars, reader, consecutive_line_failures, abort, summary_warnings,
                 reused, scanGhost>>

OverThresholdOffByOne(failures) == failures >= MAXIMUM_CONSECUTIVE_LINE_FAILURES

\* The threshold test at the head of the loop body.
OverThreshold(failures) == failures > MAXIMUM_CONSECUTIVE_LINE_FAILURES

\* if consecutive_line_failures > _MAXIMUM_CONSECUTIVE_LINE_FAILURES: warn, break
ThresholdAbort ==
  /\ UNCHANGED notText
  /\ pc = "loop"
  /\ ~EmptyLines(reader)
  /\ ~abort
  /\ OverThreshold(consecutive_line_failures)
  /\ Leave("aborted")
  /\ summary_warnings' = summary_warnings + 1
  /\ step' = Step("threshold", None, <<>>, <<"more than 20 consecutive failures">>)
  /\ prev_failures' = consecutive_line_failures
  /\ UNCHANGED <<pluginVars, reader, consecutive_line_failures, abort, reused, scanGhost>>

\* The guard of the loop body proper.
Scanning ==
  /\ pc = "loop"
  /\ ~EmptyLines(reader)
  /\ ~abort
  /\ ~OverThreshold(consecutive_line_failures)

CountFailureKept(failures) == failures

\* The failure counter after an unmatched, non-empty line.
CountFailure(failures) == failures + 1

\* _ParseString raises ParseError: ReadLine takes the line; an empty line is
\* passed over, any other is reported and counted.
LineFailure ==
  /\ UNCHANGED notText
  /\ Scanning
  /\ \E v \in Reveal(reader) :
       LET line == ReadLine(v)[1]
       IN /\ ~ParseString(pyparsing_grammar, Lines(v)).ok
          /\ reader' = ReadLine(v)[2]
          /\ IF line = <<>>
             THEN /\ step' = Step("empty", None, <<>>, <<>>)
                  /\ consecutive_line_failures' = consecutive_line_failures
             ELSE /\ step' = Step("fail", None, <<>>, <<"unable to parse log line">>)
                  /\ consecutive_line_failures' = CountFailure(consecutive_line_failures)
  /\ prev_failures' = consecutive_line_failures
  /\ UNCHANGED <<pluginVars, parser_mediator, pc, abort, scan_end, summary_warnings,
                 reused, scanGhost>>

ResetFailuresKept(failures) == failures

\* The failure counter after a successful match.
ResetFailures(failures) == 0

\* _ParseString returns a record: the counter is reset, the record handled,
\* the buffer advanced past the match and refilled.
Match ==
  /\ UNCHANGED notText
  /\ Scanning
  /\ \E v \in Reveal(reader) :
       LET m == ParseString(pyparsing_grammar, Lines(v))
           h == ParseRecord(PluginNow, m.key, m.structure)
           w == IF h.raised THEN <<"unable to parse record">> ELSE h.warnings
           skipped == SkipAhead(v, m.end)
       IN /\ m.ok
          /\ consecutive_line_failures' = ResetFailures(consecutive_line_failures)
          /\ prev_failures' = consecutive_line_failures
          /\ software' = h.st.software
          /\ version' = h.st.version
          /\ use_local_timezone' = h.st.use_local_timezone
          /\ handled' = TRUE
          /\ local_header_handled' =
               (local_header_handled \/ IsLocalTimeHeader(m.key, m.structure))
          /\ \/ /\ reader' \in ReadLines(skipped)
                /\ step' = Step("match", m.key, h.events, w)
                /\ UNCHANGED <<parser_mediator, pc, scan_end>>
             \/ /\ ~skipped.eof
                /\ reader' = skipped
                /\ step' = Step("match", m.key, h.events,
                                w \o <<"unable to read and decode log line">>)
                /\ Leave("decode_error")
  /\ UNCHANGED <<abort, summary_warnings, reused>>


----------------------------------------------------------------------------
\* PlistParser (parsers/plist.py).

\* Model bounds: the registered plugins and the events one plugin yields.
NumPlugins == 2
MaxEvents == 2

\* 50MB is 10x larger than any plist seen to date.
MaxPlistSize == 50000000

\* The sizes get_size() is drawn from: around both ends of the accepted range.
FileSizes == {-1, 0, 1, MaxPlistSize - 1, MaxPlistSize, MaxPlistSize + 1}

\* What binplist.readPlist can do: raise, or return an object.
ReadPlistRaises ==
  {"binplist.FormatError", "LookupError", "binascii.Error", "ValueError",
   "AttributeError", "OverflowError", "IOError"}
ReadPlistReturns == {"None", "empty", "plist"}

SizeErrorExclusive(size) ==
  IF size <= 0 THEN "UnableToParseFile"
  ELSE IF size >= MaxPlistSize THEN "UnableToParseFile"
  ELSE None

\* The size checks of Parse: the error raised, None when the size is accepted.
SizeError(size) ==
  IF size <= 0 THEN "UnableToParseFile"
  ELSE IF size > MaxPlistSize THEN "UnableToParseFile"
  ELSE None

\* not top_level_object
Falsy(object) == object \in {"None", "empty"}

GetTopLevelOverflowEscapes(read) ==
  IF read \in {"binplist.FormatError", "LookupError", "binascii.Error", "ValueError",
               "AttributeError"}
  THEN [raises |-> "UnableToParseFile", value |-> "None"]
  ELSE IF read \in ReadPlistRaises THEN [raises |-> read, value |-> "None"]
  ELSE IF Falsy(read) THEN [raises |-> "UnableToParseFile", value |-> "None"]
  ELSE [raises |-> None, value |-> read]

\* GetTopLevel: the exception it raises (None when it returns) and its result.
GetTopLevel(read) ==
  IF read = "binplist.FormatError" THEN [raises |-> "UnableToParseFile", value |-> "None"]
  ELSE IF read \in {"LookupError", "binascii.Error", "ValueError", "AttributeError"}
    THEN [raises |-> "UnableToParseFile", value |-> "None"]
  ELSE IF read = "OverflowError" THEN [raises |-> "UnableToParseFile", value |-> "None"]
  ELSE IF read \in ReadPlistRaises THEN [raises |-> read, value |-> "None"]
  ELSE IF Falsy(read) THEN [raises |-> "UnableToParseFile", value |-> "None"]
  ELSE [raises |-> None, value |-> read]

LoopCatchesNothing(exception) == FALSE

\* except errors.WrongPlistPlugin: the exceptions the plugin loop swallows.
LoopCatches(exception) == exception = "WrongPlistPlugin"

ProduceEventAsFirstPlugin(events, plugin, event) == Append(events, <<1, event>>)

\* parser_context.ProduceEvent(event_object, parser_name=self.NAME,
\* plugin_name=plugin_object.NAME, file_entry=file_entry): the mediator receives
\* the event tagged with the plugin of the loop; the parser name and the file
\* entry are the same for every event of one Parse.
ProduceEvent(events, plugin, event) == Append(events, <<plugin, event>>)

notPlist == <<textVars, grammarVars, decodeVars, scanVars, recordVars, handlerVars>>

PlistInit ==
  /\ parse_pc = "idle"
  /\ file_size = 1
  /\ closes = 0
  /\ outcome = "running"
  /\ read_plist = None
  /\ top_level_calls = 0
  /\ plugin_index = 1
  /\ called = {}
  /\ signalled = {}
  /\ yielded = [i \in 1..NumPlugins |-> 0]
  /\ produced = <<>>
  /\ failed_by = 0

\* Parse returns or raises.
Finish(how) ==
  /\ parse_pc' = "done"
  /\ outcome' = how

\* Parse, lines 108-122: the file object is opened and its size checked.
ParseOpen ==
  /\ UNCHANGED notPlist
  /\ parse_pc = "idle"
  /\ \E size \in FileSizes :
       /\ file_size' = size
       /\ IF SizeError(size) # None
          THEN /\ closes' = closes + 1
               /\ Finish(SizeError(size))
          ELSE /\ parse_pc' = "top_level"
               /\ UNCHANGED <<closes, outcome>>
  /\ UNCHANGED <<read_plist, top_level_calls, plugin_index, called, signalled, yielded,
                 produced, failed_by>>

\* Parse, lines 124-135: GetTopLevel and the test of its result.
ParseTopLevel ==
  /\ UNCHANGED notPlist
  /\ parse_pc = "top_level"
  /\ top_level_calls' = top_level_calls + 1
  /\ \E read \in ReadPlistRaises \cup ReadPlistReturns :
       LET top == GetTopLevel(read)
       IN /\ read_plist' = read
          /\ IF top.raises = "UnableToParseFile"
             THEN closes' = closes + 1 /\ Finish("UnableToParseFile")
             ELSE IF top.raises # None
             THEN UNCHANGED closes /\ Finish(top.raises)
             ELSE IF Falsy(top.value)
             THEN closes' = closes + 1 /\ Finish("UnableToParseFile")
             ELSE UNCHANGED <<closes, outcome>> /\ parse_pc' = "basename"
  /\ UNCHANGED <<file_size, plugin_index, called, signalled, yielded, produced, failed_by>>

\* Parse, lines 137-138: GetFileSystem and BasenamePath, which return or raise.
ParseBasename ==
  /\ UNCHANGED notPlist
  /\ parse_pc = "basename"
  /\ \/ parse_pc' = "plugins" /\ UNCHANGED outcome
     \/ Finish("PathError")
  /\ UNCHANGED <<file_size, closes, read_plist, top_level_calls, plugin_index, called,
                 signalled, yielded, produced, failed_by>>

\* An exception leaves plugin_object.Process or the iteration of its generator
\* or ProduceEvent: the loop swallows it and goes on, or it leaves Parse.
PluginRaises(exception) ==
  IF LoopCatches(exception)
  THEN /\ plugin_index' = plugin_index + 1
       /\ parse_pc' = "plugins"
       /\ UNCHANGED <<outcome, failed_by>>
  ELSE /\ Finish(exception)
       /\ failed_by' = plugin_index
       /\ UNCHANGED plugin_index

\* Parse, lines 140-143: the next plugin's Process is called; it returns a
\* generator or raises.
PluginProcess ==
  /\ UNCHANGED notPlist
  /\ parse_pc = "plugins"
  /\ plugin_index <= NumPlugins
  /\ called' = called \cup {plugin_index}
  /\ \/ /\ parse_pc' = "events"
        /\ UNCHANGED <<plugin_index, outcome, failed_by, signalled>>
     \/ /\ PluginRaises("WrongPlistPlugin")
        /\ signalled' = signalled \cup {plugin_index}
     \/ /\ PluginRaises("ValueError")
        /\ UNCHANGED signalled
  /\ UNCHANGED <<file_size, closes, read_plist, top_level_calls, yielded, produced>>

\* Parse, lines 147-150: the generator is asked for its next event: it yields
\* one, which ProduceEvent takes or raises on, or it ends, or it raises.
PluginEvents ==
  /\ UNCHANGED notPlist
  /\ parse_pc = "events"
  /\ \/ /\ yielded[plugin_index] < MaxEvents
        /\ yielded' = [yielded EXCEPT ![plugin_index] = @ + 1]
        /\ \/ /\ produced' = ProduceEvent(produced, plugin_index, yielded'[plugin_index])
              /\ UNCHANGED <<parse_pc, plugin_index, outcome, failed_by>>
           \/ /\ PluginRaises("IOError")
              /\ UNCHANGED produced
        /\ UNCHANGED signalled
     \/ /\ plugin_index' = plugin_index + 1
        /\ parse_pc' = "plugins"
        /\ UNCHANGED <<outcome, failed_by, signalled, yielded, produced>>
     \/ /\ PluginRaises("WrongPlistPlugin")
        /\ signalled' = signalled \cup {plugin_index}
        /\ UNCHANGED <<yielded, produced>>
     \/ /\ PluginRaises("ValueError")
        /\ UNCHANGED <<signalled, yielded, produced>>
  /\ UNCHANGED <<file_size, closes, read_plist, top_level_calls, called>>

\* Parse, line 156: the loop is over.
ParseClose ==
  /\ UNCHANGED notPlist
  /\ parse_pc = "plugins"
  /\ plugin_index > NumPlugins
  /\ closes' = closes + 1
  /\ Finish("returned")
  /\ UNCHANGED <<file_size, read_plist, top_level_calls, plugin_index, called, signalled,
                 yielded, produced, failed_by>>

PlistNext ==
  \/ ParseOpen
  \/ ParseTopLevel
  \/ ParseBasename
  \/ PluginProcess
  \/ PluginEvents
  \/ ParseClose

----------------------------------------------------------------------------
\* _SetLineStructures and _ParseString of a plugin whose line structures are
\* literals, so that several alternatives can match at one offset.

\* Model bounds: the longest literal and the longest scanned string.
MaxLiteralLen == 2
MaxStringLen == 3

RECURSIVE SeqsUpTo(_, _)
SeqsUpTo(S, n) ==
  IF n = 0 THEN {<<>>}
  ELSE LET shorter == SeqsUpTo(S, n - 1)
       IN shorter \cup {Append(q, c) : q \in {t \in shorter : Len(t) = n - 1}, c \in S}

Literals == {Expr("literal", w, FALSE) : w \in SeqsUpTo({"a", "b"}, MaxLiteralLen) \ {<<>>}}

\* Two line structures in declaration order; one of them may be a Group already.
LineStructures ==
  {<< <<"first", e1>>, <<"second", e2>> >> : e1 \in Literals, e2 \in Literals}
  \cup {<< <<"first", [e1 EXCEPT !.group = TRUE]>>, <<"second", e2>> >> :
          e1 \in {l \in Literals : Len(l.text) = 1}, e2 \in Literals}

ScanStrings == SeqsUpTo({"a", "b", NL}, MaxStringLen)

notGrammar == <<textVars, plistVars, decodeVars, scanVars, recordVars, handlerVars>>

GrammarParked ==
  /\ declared_structures = LINE_STRUCTURES
  /\ scan_string = <<>>
  /\ scan_done = FALSE
  /\ scan_result = ParseError(None)

GrammarInit ==
  /\ declared_structures \in LineStructures
  /\ scan_string \in ScanStrings
  /\ scan_done = FALSE
  /\ scan_result = ParseError(None)

\* The plugin is constructed (_SetLineStructures) and _ParseString called.
ScanString ==
  /\ UNCHANGED notGrammar
  /\ ~scan_done
  /\ scan_done' = TRUE
  /\ scan_result' = ParseString(SetLineStructures(declared_structures), scan_string)
  /\ UNCHANGED <<declared_structures, scan_string>>

GrammarNext == ScanString

----------------------------------------------------------------------------
\* TextPlugin._EncodingErrorHandler under the decoder that calls it.

\* Model bound: the longest buffer decoded.
MaxBytes == 3

\* The byte values buffers are drawn from: a control character, a letter, and
\* bytes with the high bit set (no UTF-16 high surrogate 0xD8..0xDB among them).
ByteSample == {5, 65, 128, 220, 255}

Encodings == {"ascii", "utf-16-le"}

HexDigits == <<"0", "1", "2", "3", "4", "5", "6", "7", "8", "9",
               "a", "b", "c", "d", "e", "f">>

RECURSIVE Hex(_)
\* format(n, 'x')
Hex(n) == IF n < 16 THEN <<HexDigits[n + 1]>> ELSE Hex(n \div 16) \o <<HexDigits[(n % 16) + 1]>>

\* format(n, '{width}x') padded with the fill character.
Padded(n, width, fill) ==
  LET digits == Hex(n)
  IN [i \in 1..(IF Len(digits) < width THEN width - Len(digits) ELSE 0) |-> fill] \o digits

\* '\\x{0:2x}'.format(byte)
Escaped(byte) == <<"\\", "x">> \o Padded(byte, 2, " ")

\* exception.start + 1
ResumeAt(start) == start + 1

\* _EncodingErrorHandler for a UnicodeDecodeError: the warning it hands to the
\* mediator it holds (none without one), the replacement, the resume position.
EncodingErrorHandler(object, start, mediator, offset) ==
  [warnings |-> IF mediator # None
                THEN <<[byte |-> Padded(object[start + 1], 2, "0"), offset |-> offset + start]>>
                ELSE <<>>,
   escaped |-> Escaped(object[start + 1]),
   resume |-> ResumeAt(start)]

\* The decoder at one position: "end" (nothing left), [ok, size, char] for a
\* character decoded from size bytes, or "error" (a UnicodeDecodeError whose
\* start is that position).
\*   ascii: a byte below 0x80 is a character.
\*   utf-16-le: two bytes, low byte first, are a character unless they are a
\*   lone low surrogate 0xDC00..0xDFFF; a single last byte is truncated data.
DecodeAt(enc, bytes, pos) ==
  IF pos >= Len(bytes) THEN [kind |-> "end", size |-> 0, char |-> 0]
  ELSE IF enc = "ascii"
    THEN IF bytes[pos + 1] < 128
         THEN [kind |-> "ok", size |-> 1, char |-> bytes[pos + 1]]
         ELSE [kind |-> "error", size |-> 0, char |-> 0]
  ELSE IF pos + 2 > Len(bytes) THEN [kind |-> "error", size |-> 0, char |-> 0]
  ELSE IF bytes[pos + 2] \in 220..223 THEN [kind |-> "error", size |-> 0, char |-> 0]
  ELSE [kind |-> "ok", size |-> 2, char |-> bytes[pos + 1] + 256 * bytes[pos + 2]]

notDecode == <<textVars, plistVars, grammarVars, scanVars, recordVars, handlerVars>>

DecodeParked ==
  /\ encoding = "ascii"
  /\ buffer = <<>>
  /\ position = 0
  /\ decoded = <<>>
  /\ handler_calls = <<>>
  /\ decode_mediator = None
  /\ current_offset = 0
  /\ decode_warnings = <<>>

DecodeInit ==
  /\ encoding \in Encodings
  /\ buffer \in SeqsUpTo(ByteSample, MaxBytes)
  /\ position = 0
  /\ decoded = <<>>
  /\ handler_calls = <<>>
  /\ decode_mediator \in {None, "mediator"}
  /\ current_offset \in {0, 400}
  /\ decode_warnings = <<>>

\* The decoder decodes one character.
DecodeCharacter ==
  /\ UNCHANGED notDecode
  /\ DecodeAt(encoding, buffer, position).kind = "ok"
  /\ decoded' = Append(decoded, DecodeAt(encoding, buffer, position).char)
  /\ position' = position + DecodeAt(encoding, buffer, position).size
  /\ UNCHANGED <<encoding, buffer, handler_calls, decode_mediator, current_offset,
                 decode_warnings>>

\* The decoder meets an invalid byte: it calls the handler, takes the
\* replacement and resumes where the handler says.
DecodeInvalid ==
  /\ UNCHANGED notDecode
  /\ DecodeAt(encoding, buffer, position).kind = "error"
  /\ LET result == EncodingErrorHandler(buffer, position, decode_mediator, current_offset)
     IN /\ decoded' = decoded \o result.escaped
        /\ position' = result.resume
        /\ handler_calls' = Append(handler_calls,
             [start |-> position, escaped |-> result.escaped, resume |-> result.resume])
        /\ decode_warnings' = decode_warnings \o result.warnings
  /\ UNCHANGED <<encoding, buffer, decode_mediator, current_offset>>

DecodeNext ==
  \/ DecodeCharacter
  \/ DecodeInvalid

----------------------------------------------------------------------------
\* _ParseLines over whole files: the text of the file, the lines buffer, the
\* line number and the stream offset are kept in full, and every loop
\* iteration is appended to a log.

\* The maximum line length of a single read (the reader's buffer_size).
MAXIMUM_LINE_LENGTH == 400

\* Model bound: the number of lines of the files built from ScanLineText.
MaxFileLines == 3

\* A line of n characters that match no grammar.
Unmatched(n) == [i \in 1..n |-> "x"]

\* The lines short files are built from: an empty line, unmatched text, the
\* records of either kind, a record behind unmatched text, and unmatched lines
\* of 80 and of 81 characters.
ScanLineText == {<<>>, <<"x">>, <<"D">>, <<"B">>, <<"x", "D">>, Unmatched(80), Unmatched(81)}

\* n copies of a line, each with its terminator.
RECURSIVE Repeat(_, _)
Repeat(line, n) == IF n = 0 THEN <<>> ELSE line \o <<NL>> \o Repeat(line, n - 1)

\* The files of at most n lines of ScanLineText whose lines all end in a terminator.
RECURSIVE FilesUpTo(_)
FilesUpTo(n) ==
  IF n = 0 THEN {<<>>}
  ELSE FilesUpTo(n - 1) \cup
       {f \o l \o <<NL>> : f \in FilesUpTo(n - 1), l \in ScanLineText}

\* The files scanned: the short files, with their last terminator or without
\* it, and long files: runs of unmatched lines longer than the threshold (one
\* with an empty line in it, one behind a record), files longer than one fill of the buffer whose
\* first lines do not match or are comments, and a log with a local-time header.
ScanFiles ==
  LET short == FilesUpTo(MaxFileLines)
      run == MAXIMUM_CONSECUTIVE_LINE_FAILURES + 3
  IN short
     \cup {SubSeq(f, 1, Len(f) - 1) : f \in short \ {<<>>}}
     \cup {Repeat(<<"x">>, run),
           Repeat(<<"x">>, 10) \o <<NL>> \o Repeat(<<"x">>, run - 10),
           <<"x", NL, "D", NL>> \o Repeat(<<"x">>, run),
           Repeat(Unmatched(81), 5) \o <<"D", NL>>,
           Repeat(<<"#">> \o Unmatched(80), 5) \o <<"D", NL>>,
           <<"V", NL, "T", NL, "D", NL, "B", NL>>}

\* The EncodedTextReader, in full: the lines buffer, the number of lines taken
\* off it, and the offset in the stream behind the text read into the buffer.
TextReader(lines, line_number, offset) ==
  [lines |-> lines, line_number |-> line_number, offset |-> offset]

NewTextReader == TextReader(<<>>, 0, 0)

Min(a, b) == IF a < b THEN a ELSE b

\* ReadLines(): while the buffer holds no more than buffer_size characters and
\* the stream is not exhausted, one more line of the stream (of at most
\* buffer_size characters, its terminator included) is appended to the buffer.
RECURSIVE ReadLinesOf(_, _)
ReadLinesOf(tr, stream) ==
  IF tr.offset >= Len(stream) \/ Len(tr.lines) > MAXIMUM_LINE_LENGTH THEN tr
  ELSE LET last == Min(Min(LineEnd(stream, tr.offset + 1), Len(stream)),
                       tr.offset + MAXIMUM_LINE_LENGTH)
       IN ReadLinesOf(TextReader(tr.lines \o SubSeq(stream, tr.offset + 1, last),
                                 tr.line_number, last), stream)

\* The number of terminators in a text.
Terminators(s) == Cardinality({i \in 1..Len(s) : s[i] = NL})

\* ReadLine(): line, _, lines = lines.partition('\n'); the line number goes up.
ReadLineOf(tr) ==
  LET e == LineEnd(tr.lines, 1)
  IN [line |-> SubSeq(tr.lines, 1, e - 1),
      reader |-> TextReader(SubSeq(tr.lines, e + 1, Len(tr.lines)),
                            tr.line_number + 1, tr.offset)]

\* SkipAhead(number_of_characters): the characters are dropped from the buffer
\* and the terminators among them counted as lines.
SkipAheadOf(tr, number_of_characters) ==
  TextReader(SubSeq(tr.lines, number_of_characters + 1, Len(tr.lines)),
             tr.line_number + Terminators(SubSeq(tr.lines, 1, number_of_characters)),
             tr.offset)

\* The offset in the file of the first character of the buffer.
Consumed(tr) == tr.offset - Len(tr.lines)

\* A warning handed to ProduceExtractionWarning: its message, the number it
\* is formatted with (a line number or an offset, -1 when none) and the text it
\* quotes.
Warning(message, number, text) == [message |-> message, number |-> number, text |-> text]

PreviewCutAt80(line) == IF Len(line) > 80 THEN SubSeq(line, 1, 80) ELSE line

\* if len(line) > 80: line = '{0:s}...'.format(line[:77])
Preview(line) ==
  IF Len(line) > 80 THEN SubSeq(line, 1, 77) \o <<".", ".", ".">> ELSE line

IsEmptyLineNever(line) == FALSE

\* if not line: continue
IsEmptyLine(line) == line = <<>>

LoopHeadThresholdFirst(flag, failures) ==
  IF OverThreshold(failures) THEN "threshold"
  ELSE IF flag THEN "cancel"
  ELSE "body"

\* The two tests at the head of the loop body, in the order of the code: the
\* mediator's abort flag, then the failure counter.
LoopHead(flag, failures) ==
  IF flag THEN "cancel"
  ELSE IF OverThreshold(failures) THEN "threshold"
  ELSE "body"

\* One iteration of the loop, as logged: what it did (kind), the match (key,
\* start and end in the buffer) or the ParseError of _ParseString (error), the characters of the file it took off the
\* buffer (from, up to to), the line ReadLine returned, the line number, the
\* events and the warnings it handed to the mediator, whether _ParseRecord was
\* called, and the failure counter before and after it.
Entry(kind, from, to, before, after) ==
  [kind |-> kind, key |-> None, error |-> None, start |-> -1, end |-> -1,
   from |-> from, to |-> to, line |-> <<>>, line_number |-> -1, events |-> <<>>, warnings |-> <<>>,
   dispatched |-> FALSE, before |-> before, after |-> after]

ScanParked ==
  /\ file_text = <<>>
  /\ text_reader = NewTextReader
  /\ scan_pc = "idle"
  /\ scan_failures = 0
  /\ scan_abort = FALSE
  /\ scan_offset = 0
  /\ scan_plugin = InitialPluginState
  /\ scan_log = <<>>
  /\ scan_outcome = "none"

ScanInit ==
  /\ file_text \in ScanFiles
  /\ text_reader = NewTextReader
  /\ scan_pc = "idle"
  /\ scan_failures = 0
  /\ scan_abort = FALSE
  /\ scan_offset = 0
  /\ scan_plugin = InitialPluginState
  /\ scan_log = <<>>
  /\ scan_outcome = "none"

\* _ParseLines returns.
ScanEnds(how) ==
  /\ scan_pc' = "done"
  /\ scan_outcome' = how

DecodeFailureSilent(offset) == <<>>

\* The warning of a UnicodeDecodeError raised by ReadLines: it names
\* self._current_offset.
DecodeFailure(offset) == <<Warning("unable to read and decode log line", offset, <<>>)>>

\* _ParseLines, lines 117-129: the offset is set to 0 and the buffer filled.
ScanBegin ==
  /\ UNCHANGED notScan
  /\ scan_pc = "idle"
  /\ text_reader' = ReadLinesOf(text_reader, file_text)
  /\ scan_offset' = text_reader'.offset
  /\ scan_failures' = 0
  /\ scan_pc' = "loop"
  /\ scan_outcome' = "running"
  /\ scan_log' = Append(scan_log, Entry("begin", 0, 0, 0, 0))
  /\ UNCHANGED <<file_text, scan_abort, scan_plugin>>

\* _ParseLines, lines 117-127: the first ReadLines raises UnicodeDecodeError.
ScanBeginDecodeError ==
  /\ UNCHANGED notScan
  /\ scan_pc = "idle"
  /\ file_text # <<>>
  /\ scan_offset' = 0
  /\ ScanEnds("decode_error")
  /\ scan_log' = Append(scan_log,
       [Entry("decode", 0, 0, 0, 0) EXCEPT !.warnings = DecodeFailure(scan_offset')])
  /\ UNCHANGED <<file_text, text_reader, scan_failures, scan_abort, scan_plugin>>

\* The mediator's abort flag is set from outside while the scan runs.
ScanSignalAbort ==
  /\ UNCHANGED notScan
  /\ scan_pc = "loop"
  /\ ~scan_abort
  /\ scan_abort' = TRUE
  /\ UNCHANGED <<file_text, text_reader, scan_pc, scan_failures, scan_offset, scan_plugin,
                 scan_log, scan_outcome>>

\* An iteration that ends the scan without touching the buffer.
ScanStops(kind, how, warnings) ==
  /\ ScanEnds(how)
  /\ scan_log' = Append(scan_log,
       [Entry(kind, Consumed(text_reader), Consumed(text_reader),
              scan_failures, scan_failures) EXCEPT !.warnings = warnings])
  /\ UNCHANGED <<file_text, text_reader, scan_failures, scan_abort, scan_offset, scan_plugin>>

\* while text_reader.lines: the buffer is empty.
ScanLoopExit ==
  /\ UNCHANGED notScan
  /\ scan_pc = "loop"
  /\ text_reader.lines = <<>>
  /\ ScanStops("exit", "exhausted", <<>>)

\* if parser_mediator.abort: break
ScanCancel ==
  /\ UNCHANGED notScan
  /\ scan_pc = "loop"
  /\ text_reader.lines # <<>>
  /\ LoopHead(scan_abort, scan_failures) = "cancel"
  /\ ScanStops("cancel", "cancelled", <<>>)

\* if consecutive_line_failures > _MAXIMUM_CONSECUTIVE_LINE_FAILURES: warn, break
ScanThresholdAbort ==
  /\ UNCHANGED notScan
  /\ scan_pc = "loop"
  /\ text_reader.lines # <<>>
  /\ LoopHead(scan_abort, scan_failures) = "threshold"
  /\ ScanStops("threshold", "aborted",
               <<Warning("more than 20 consecutive failures", -1, <<>>)>>)

\* The guard of the loop body proper.
ScanScanning ==
  /\ scan_pc = "loop"
  /\ text_reader.lines # <<>>
  /\ LoopHead(scan_abort, scan_failures) = "body"

\* _ParseString raises ParseError: ReadLine takes one line off the buffer; an
\* empty line is passed over, any other is reported and counted.
ScanLineFailure ==
  /\ UNCHANGED notScan
  /\ ScanScanning
  /\ ~ParseString(pyparsing_grammar, text_reader.lines).ok
  /\ LET read == ReadLineOf(text_reader)
         empty == IsEmptyLine(read.line)
         after == IF empty THEN scan_failures ELSE CountFailure(scan_failures)
     IN /\ text_reader' = read.reader
        /\ scan_failures' = after
        /\ scan_log' = Append(scan_log,
             [Entry(IF empty THEN "empty" ELSE "fail", Consumed(text_reader),
                    Consumed(read.reader), scan_failures, after)
                EXCEPT !.error = ParseString(pyparsing_grammar, text_reader.lines).error,
                       !.line = read.line,
                       !.line_number = read.reader.line_number,
                       !.warnings = IF empty THEN <<>>
                                    ELSE <<Warning("unable to parse log line",
                                                   read.reader.line_number,
                                                   Preview(read.line))>>])
  /\ UNCHANGED <<file_text, scan_pc, scan_abort, scan_offset, scan_plugin, scan_outcome>>

\* The warnings of one _ParseRecord call: the handler's own, or that of the
\* ParseError it raised.
RecordWarnings(h, key) ==
  IF h.raised THEN <<Warning("unable to parse record", -1, <<key>>)>>
  ELSE [i \in 1..Len(h.warnings) |-> Warning(h.warnings[i], -1, <<>>)]

\* _ParseString returns a record: the counter is reset, the record handled,
\* the buffer advanced past the match and refilled; the refill can raise
\* UnicodeDecodeError, which ends the scan.
ScanMatch ==
  /\ UNCHANGED notScan
  /\ ScanScanning
  /\ LET m == ParseString(pyparsing_grammar, text_reader.lines)
         h == ParseRecord(scan_plugin, m.key, m.structure)
         skipped == SkipAheadOf(text_reader, m.end)
         after == ResetFailures(scan_failures)
         entry == [Entry("match", Consumed(text_reader), Consumed(skipped),
                         scan_failures, after)
                     EXCEPT !.key = m.key, !.start = m.start, !.end = m.end,
                            !.line_number = skipped.line_number,
                            !.events = h.events,
                            !.warnings = RecordWarnings(h, m.key),
                            !.dispatched = TRUE]
     IN /\ m.ok
        /\ scan_failures' = after
        /\ scan_plugin' = h.st
        /\ \/ /\ text_reader' = ReadLinesOf(skipped, file_text)
              /\ scan_offset' = text_reader'.offset
              /\ scan_log' = Append(scan_log, entry)
              /\ UNCHANGED <<scan_pc, scan_outcome>>
           \/ /\ ReadLinesOf(skipped, file_text) # skipped
              /\ text_reader' = skipped
              /\ scan_log' = Append(scan_log,
                   [entry EXCEPT !.kind = "match_decode",
                                 !.warnings = @ \o DecodeFailure(scan_offset)])
              /\ ScanEnds("decode_error")
              /\ UNCHANGED scan_offset
  /\ UNCHANGED <<file_text, scan_abort>>

ScanNext ==
  \/ ScanBegin
  \/ ScanBeginDecodeError
  \/ ScanSignalAbort
  \/ ScanLoopExit
  \/ ScanCancel
  \/ ScanThresholdAbort
  \/ ScanLineFailure
  \/ ScanMatch

----------------------------------------------------------------------------
\* WinFirewallLogTextPlugin._ParseRecord on its own: called with the key and
\* the tokens of a scan of one line by the plugin's grammar, or called
\* directly with any key.

\* The keys _ParseRecord is called with: the grammar's and others.
RecordKeys == {"comment", "logline", "Comment", "header", ""}

\* The tokens it is called with.
RecordStructures == {<<"D">>, <<"B">>, <<"#">>, <<"V">>, <<"S">>, <<"T">>, <<"t", "T">>}

\* The cross-record states the plugin can be in.
PluginStates ==
  {PluginState(sw, ver, local) :
     sw \in {None, "value"}, ver \in {None, "value"}, local \in BOOLEAN}

\* The keys _ParseRecord has a branch for.
HandlerKeys == {"comment", "logline"}

\* The keys the compiled grammar can return.
GrammarKeys ==
  UNION {{pyparsing_grammar[i].keys[k] : k \in 1..Len(pyparsing_grammar[i].keys)} :
           i \in 1..Len(pyparsing_grammar)}

notRecord == <<textVars, plistVars, grammarVars, decodeVars, scanVars, handlerVars>>

RecordParked ==
  /\ record_line = <<>>
  /\ record_key = "comment"
  /\ record_structure = <<"#">>
  /\ record_state = InitialPluginState
  /\ record_called = "no"
  /\ record_result = Handled(InitialPluginState, <<>>, <<>>, FALSE)

RecordInit ==
  /\ record_line \in LineText
  /\ record_key \in RecordKeys
  /\ record_structure \in RecordStructures
  /\ record_state \in PluginStates
  /\ record_called = "no"
  /\ record_result = Handled(record_state, <<>>, <<>>, FALSE)

\* _ParseLines, lines 141-174: the line is scanned and the record it holds is
\* handed to _ParseRecord with the key the grammar returned.
RecordScan ==
  /\ UNCHANGED notRecord
  /\ record_called = "no"
  /\ LET m == ParseString(pyparsing_grammar, record_line \o <<NL>>)
     IN /\ m.ok
        /\ record_key' = m.key
        /\ record_structure' = m.structure
        /\ record_result' = ParseRecord(record_state, m.key, m.structure)
  /\ record_called' = "scan"
  /\ UNCHANGED <<record_line, record_state>>

\* _ParseRecord called with a key and tokens of the caller's choice.
RecordCall ==
  /\ UNCHANGED notRecord
  /\ record_called = "no"
  /\ record_result' = ParseRecord(record_state, record_key, record_structure)
  /\ record_called' = "direct"
  /\ UNCHANGED <<record_line, record_key, record_structure, record_state>>

RecordNext ==
  \/ RecordScan
  \/ RecordCall

----------------------------------------------------------------------------
\* Several TextPlugin instances in one process: the constructors, the error
\* handler registered under the name 'text_parser_handler', and Process with
\* the mediator reference it stashes on the instance.

\* Model bounds: the instances constructed and the invalid bytes met.
MaxInstances == 2
MaxErrorCalls == 2

Instances == 1..MaxInstances

\* The mediator handed to Process of instance i.
MediatorOf(i) == <<"mediator 1", "mediator 2", "mediator 3", "mediator 4">>[i]

\* The stream offsets get_offset() returns after a fill of the buffer.
StreamOffsets == {0, 400}

\* The invalid bytes (ascii) met, each with its index in the buffer decoded.
InvalidBytes == {<<128, 0>>, <<255, 1>>}

\* codecs.register_error(name, handler): the handler looked up under the name
\* afterwards is the one registered last.
RegisterError(registered, instance) == instance

MediatorAfterProcessKeptOnError(mediator, how) ==
  IF how = "returned" THEN None ELSE mediator

\* finally: self._parser_mediator = None, however the try block was left.
MediatorAfterProcess(mediator, how) == None

\* The buffer of a decode in which the byte met at the index is invalid.
BufferWith(byte, index) == [i \in 1..(index + 1) |-> IF i = index + 1 THEN byte ELSE 65]

notHandler == <<textVars, plistVars, grammarVars, decodeVars, scanVars, recordVars>>

HandlerParked ==
  /\ instances = 0
  /\ text_parser_handler = 0
  /\ instance_mediator = [i \in Instances |-> None]
  /\ instance_offset = [i \in Instances |-> 0]
  /\ in_process = 0
  /\ process_pc = "none"
  /\ error_calls = <<>>
  /\ last_exit = "none"

\* TextPlugin.__init__: the offset and the mediator reference are initialised
\* and the instance's bound _EncodingErrorHandler is registered.
Construct ==
  /\ UNCHANGED notHandler
  /\ in_process = 0
  /\ instances < MaxInstances
  /\ instances' = instances + 1
  /\ instance_offset' = [instance_offset EXCEPT ![instances'] = 0]
  /\ instance_mediator' = [instance_mediator EXCEPT ![instances'] = None]
  /\ text_parser_handler' = RegisterError(text_parser_handler, instances')
  /\ UNCHANGED <<in_process, process_pc, error_calls, last_exit>>

\* Process, line 288: the base class raises on unhandled keyword arguments.
ProcessRejects ==
  /\ UNCHANGED notHandler
  /\ in_process = 0
  /\ instances > 0
  /\ last_exit' = "kwargs"
  /\ UNCHANGED <<instances, text_parser_handler, instance_mediator, instance_offset,
                 in_process, process_pc, error_calls>>

\* Process, lines 288-293: the mediator reference is stashed, the try begins.
ProcessEnter ==
  /\ UNCHANGED notHandler
  /\ in_process = 0
  /\ \E i \in 1..instances :
       /\ in_process' = i
       /\ instance_mediator' = [instance_mediator EXCEPT ![i] = MediatorOf(i)]
  /\ process_pc' = "try"
  /\ last_exit' = "running"
  /\ UNCHANGED <<instances, text_parser_handler, instance_offset, error_calls>>

\* The try block of Process is left, by return or by an exception: finally.
ProcessLeaves(how) ==
  /\ instance_mediator' = [instance_mediator EXCEPT ![in_process] =
                          MediatorAfterProcess(instance_mediator[in_process], how)]
  /\ in_process' = 0
  /\ process_pc' = "none"
  /\ last_exit' = how
  /\ UNCHANGED <<instances, text_parser_handler, error_calls>>

\* Process, lines 294-299: seek or the construction of the reader raises.
ProcessSetupRaises ==
  /\ UNCHANGED notHandler
  /\ process_pc = "try"
  /\ \E how \in {"seek", "reader"} : ProcessLeaves(how)
  /\ UNCHANGED instance_offset

\* Process, line 301, _ParseLines, line 118: the offset is set to 0.
ProcessParseLines ==
  /\ UNCHANGED notHandler
  /\ process_pc = "try"
  /\ process_pc' = "lines"
  /\ instance_offset' = [instance_offset EXCEPT ![in_process] = 0]
  /\ UNCHANGED <<instances, text_parser_handler, instance_mediator, in_process,
                 error_calls, last_exit>>

\* ReadLines decodes a read of the stream and meets an invalid byte: the codec
\* calls the handler registered under 'text_parser_handler'.
ReadLinesMeetsInvalidByte ==
  /\ UNCHANGED notHandler
  /\ process_pc = "lines"
  /\ Len(error_calls) < MaxErrorCalls
  /\ \E invalid \in InvalidBytes :
       LET byte == invalid[1]
           index == invalid[2]
           handler == text_parser_handler
           result == EncodingErrorHandler(BufferWith(byte, index), index,
                                          instance_mediator[handler],
                                          instance_offset[handler])
       IN error_calls' = Append(error_calls,
            [scanning |-> in_process,
             scan_mediator |-> instance_mediator[in_process],
             scan_offset |-> instance_offset[in_process],
             byte |-> byte, index |-> index,
             handler |-> handler,
             mediator |-> instance_mediator[handler],
             warnings |-> result.warnings])
  /\ UNCHANGED <<instances, text_parser_handler, instance_mediator, instance_offset,
                 in_process, process_pc, last_exit>>

\* _ParseLines, lines 122 and 180: self._current_offset = text_reader.get_offset()
ReadLinesReturns ==
  /\ UNCHANGED notHandler
  /\ process_pc = "lines"
  /\ \E offset \in StreamOffsets :
       /\ offset >= instance_offset[in_process]
       /\ instance_offset' = [instance_offset EXCEPT ![in_process] = offset]
  /\ UNCHANGED <<instances, text_parser_handler, instance_mediator, in_process,
                 process_pc, error_calls, last_exit>>

\* _ParseLines returns, or an error escapes it.
ProcessEnds ==
  /\ UNCHANGED notHandler
  /\ process_pc = "lines"
  /\ \E how \in {"returned", "error"} : ProcessLeaves(how)
  /\ UNCHANGED instance_offset

HandlerNext ==
  \/ Construct
  \/ ProcessRejects
  \/ ProcessEnter
  \/ ProcessSetupRaises
  \/ ProcessParseLines
  \/ ReadLinesMeetsInvalidByte
  \/ ReadLinesReturns
  \/ ProcessEnds

----------------------------------------------------------------------------
\* The specifications.

Init == TextInit /\ PlistInit /\ GrammarParked /\ DecodeParked /\ ScanParked /\ RecordParked /\ HandlerParked

InitGrammar == TextInit /\ PlistInit /\ GrammarInit /\ DecodeParked /\ ScanParked /\ RecordParked /\ HandlerParked

InitDecode == TextInit /\ PlistInit /\ GrammarParked /\ DecodeInit /\ ScanParked /\ RecordParked /\ HandlerParked

InitScan == TextInit /\ PlistInit /\ GrammarParked /\ DecodeParked /\ ScanInit /\ RecordParked /\ HandlerParked

Next ==
  \/ ProcessRaises
  \/ ProcessDecodeError
  \/ ProcessBegin
  \/ SignalAbort
  \/ LoopExit
  \/ Cancel
  \/ ThresholdAbort
  \/ LineFailure
  \/ Match

Spec == Init /\ [][Next]_vars

SpecPlist == Init /\ [][PlistNext]_vars

SpecGrammar == InitGrammar /\ [][GrammarNext]_vars

SpecDecode == InitDecode /\ [][DecodeNext]_vars

SpecScan == InitScan /\ [][ScanNext]_vars

InitRecord ==
  /\ TextInit /\ PlistInit /\ GrammarParked /\ DecodeParked /\ ScanParked
  /\ RecordInit /\ HandlerParked

SpecRecord == InitRecord /\ [][RecordNext]_vars

\* No instance is constructed yet: HandlerParked is the state of the process.
InitHandler ==
  /\ TextInit /\ PlistInit /\ GrammarParked /\ DecodeParked /\ ScanParked
  /\ RecordParked /\ HandlerParked

SpecHandler == InitHandler /\ [][HandlerNext]_vars

----------------------------------------------------------------------------
\* Properties of PlistParser.Parse (specification SpecPlist).

\* C1: when Parse has returned or raised, on whatever path, the file object it
\* opened has been closed exactly once.
C1_ClosedExactlyOnce == parse_pc = "done" => closes = 1

\* The events of one plugin that reached the mediator.
ProducedBy(i) == {k \in 1..Len(produced) : produced[k][1] = i}

\* C2: a size <= 0 or > 50,000,000 makes Parse raise the size error after
\* closing the file, with GetTopLevel never called and no plugin invoked; every
\* size from 1 to 50,000,000 takes Parse to GetTopLevel.
C2_SizeBounds ==
  parse_pc # "idle" =>
    IF file_size <= 0 \/ file_size > 50000000
    THEN /\ parse_pc = "done"
         /\ outcome = "UnableToParseFile"
         /\ top_level_calls = 0
         /\ called = {}
         /\ produced = <<>>
    ELSE /\ parse_pc # "top_level" => top_level_calls = 1
         /\ parse_pc = "top_level" => outcome = "running"

C2_Witness ==
  /\ file_size = 50000000
  /\ top_level_calls = 1
  /\ parse_pc = "basename"

\* C8: when readPlist fails in one of the handled modes or returns an empty or
\* null object, Parse raises UnableToParseFile, no plugin's Process is invoked
\* and no event reaches the mediator.
C8_FormatError ==
  (/\ parse_pc = "done"
   /\ read_plist \in {"binplist.FormatError", "LookupError", "binascii.Error", "ValueError",
                      "AttributeError", "OverflowError", "None", "empty"})
  => /\ outcome = "UnableToParseFile"
     /\ called = {}
     /\ produced = <<>>

C8_Witness ==
  /\ parse_pc = "done"
  /\ read_plist = "OverflowError"
  /\ outcome = "UnableToParseFile"

----------------------------------------------------------------------------
\* Properties of the line-scanning loop (specification Spec).

C4_MatchResetsCounter ==
  /\ step.kind = "match" => consecutive_line_failures = 0
  /\ (step.kind = "match" /\ prev_failures = MAXIMUM_CONSECUTIVE_LINE_FAILURES)
     => /\ step.key \in SUPPORTED_KEYS
        /\ summary_warnings = 0
        /\ scan_end # "aborted"
  /\ step.kind = "fail" => consecutive_line_failures = prev_failures + 1
  /\ step.kind = "threshold" => prev_failures > MAXIMUM_CONSECUTIVE_LINE_FAILURES

C4_Witness ==
  /\ pc = "loop"
  /\ step.kind = "match"
  /\ prev_failures = 20
  /\ consecutive_line_failures = 0

\* C5: when Process runs again on the same instance, the cross-record state is
\* the freshly constructed one until the first record of that scan is handled.
C5_StateResetPerScan ==
  (reused /\ pc = "loop" /\ ~handled) => PluginNow = InitialPluginState

\* C7: in the first scan of an instance, the event of a data line is in the
\* mediator's zone if a '#Time' header whose value contains 'local' was handled
\* before it in the scan, and in UTC if not.
C7_ZoneFollowsHeader ==
  (~reused /\ step.kind = "match" /\ step.key = "logline" /\ step.events # <<>>)
  => step.events = <<IF local_header_handled THEN "mediator.timezone" ELSE "UTC">>

C7_Witness ==
  /\ ~reused
  /\ local_header_handled
  /\ step.key = "logline"
  /\ step.events = <<"mediator.timezone">>
----------------------------------------------------------------------------
\* Properties of the compiled grammar (specification SpecGrammar).

\* The end offsets of the two declared alternatives at the offset of the match.
EndOfDeclared(i) ==
  MatchEnd(declared_structures[i][2], scan_string, scan_result.start)

BothMatch == scan_done /\ scan_result.ok /\ EndOfDeclared(1) >= 0 /\ EndOfDeclared(2) >= 0

----------------------------------------------------------------------------
\* Properties of the encoding error handler (specification SpecDecode).

\* C10: every call of the handler returns four characters, the backslash, 'x'
\* and the two hexadecimal digits of the invalid byte, and the position of that
\* byte + 1; an ASCII buffer of one invalid byte and N valid bytes behind it
\* decodes to the marker and the N characters, with all 1 + N bytes consumed.
C10_EscapeAndProgress ==
  /\ \A k \in 1..Len(handler_calls) :
       LET byte == buffer[handler_calls[k].start + 1]
       IN /\ handler_calls[k].escaped =
               <<"\\", "x", HexDigits[(byte \div 16) + 1], HexDigits[(byte % 16) + 1]>>
          /\ handler_calls[k].resume = handler_calls[k].start + 1
  /\ (/\ encoding = "ascii"
      /\ Len(buffer) >= 1
      /\ buffer[1] >= 128
      /\ \A i \in 2..Len(buffer) : buffer[i] < 128
      /\ DecodeAt(encoding, buffer, position).kind = "end")
     => /\ Len(handler_calls) = 1
        /\ Len(decoded) = 4 + Len(buffer) - 1
        /\ \A i \in 2..Len(buffer) : decoded[4 + i - 1] = buffer[i]
        /\ position = Len(buffer)

\* The events plugin i's generator yielded, in the order yielded, as forwarded.
RECURSIVE EventsOf(_, _)
EventsOf(i, n) == IF n = 0 THEN <<>> ELSE Append(EventsOf(i, n - 1), <<i, n>>)

\* The events of plugins 1..i, plugin after plugin in registration order.
RECURSIVE EventsUpTo(_)
EventsUpTo(i) == IF i = 0 THEN <<>> ELSE EventsUpTo(i - 1) \o EventsOf(i, yielded[i])

\* C13: Parse invokes the plugins in registration order and forwards every event
\* a plugin produces, tagged with that plugin: at every moment the forwarded
\* events are those of the plugins before the current one, plugin after plugin
\* in registration order and in the order yielded, followed by those of the
\* current plugin; unless ProduceEvent itself raised (IOError), and so whenever
\* Parse returns, it is the concatenation over all plugins of the events each
\* yielded, nothing dropped, duplicated or attributed to another plugin.
C13_ForwardedInOrder ==
  /\ called = 1..Cardinality(called)
  /\ \A n \in 1..Len(produced) : produced[n][1] \in called
  /\ \A m, n \in 1..Len(produced) :
       m < n => \/ produced[m][1] < produced[n][1]
                \/ produced[m][1] = produced[n][1] /\ produced[m][2] < produced[n][2]
  /\ outcome # "IOError" => produced = EventsUpTo(NumPlugins)

C13_Witness ==
  /\ outcome = "returned"
  /\ \A i \in 1..NumPlugins : yielded[i] = MaxEvents
  /\ Len(produced) = NumPlugins * MaxEvents


----------------------------------------------------------------------------
\* Properties of _ParseLines over whole files (specification SpecScan).

\* The logged iterations that took text off the buffer.
Consuming == {"match", "match_decode", "fail", "empty"}
Matches == {"match", "match_decode"}

LogIndexes(kinds) == {n \in 1..Len(scan_log) : scan_log[n].kind \in kinds}

\* Every iteration that does not end the scan takes at least one character
\* off the buffer and nothing it has not got, a match skips ahead by an end
\* offset greater than 0, iterations take consecutive ranges of the file, and
\* the ranges of successive matches strictly increase and do not overlap.
C11_Progress ==
  /\ \A n \in LogIndexes(Consuming) :
       /\ scan_log[n].from < scan_log[n].to
       /\ scan_log[n].to <= Len(file_text)
  /\ \A n \in LogIndexes(Matches) : scan_log[n].end > 0
  /\ \A m, n \in LogIndexes(Consuming) :
       (m < n /\ \A k \in LogIndexes(Consuming) : ~(m < k /\ k < n))
         => scan_log[m].to = scan_log[n].from
  /\ \A m, n \in LogIndexes(Matches) :
       m < n => /\ scan_log[m].from + scan_log[m].end
                     <= scan_log[n].from + scan_log[n].start
                /\ scan_log[m].from + scan_log[m].end < scan_log[n].from + scan_log[n].end
  /\ scan_pc = "loop" => Consumed(text_reader) =
       (IF LogIndexes(Consuming) = {} THEN 0
        ELSE scan_log[CHOOSE n \in LogIndexes(Consuming) :
                        \A k \in LogIndexes(Consuming) : k <= n].to)

\* C11: the scan loop makes forward progress and terminates: every iteration of
\* _ParseLines either ends the scan or strictly reduces the unconsumed input (a
\* match skips ahead by an end offset > 0, a failure consumes one line),
\* successive matches cover strictly increasing, non-overlapping ranges, and
\* on every (finite) file the loop finishes: it takes no more iterations than
\* the file has characters, the first fill and the last test aside.
C11_ProgressAndTermination ==
  /\ C11_Progress
  /\ Len(scan_log) <= Len(file_text) + 2

C11_Witness ==
  /\ scan_pc = "done"
  /\ Cardinality(LogIndexes(Matches)) >= 2
  /\ Cardinality(LogIndexes({"fail"})) >= 1
  /\ Cardinality(LogIndexes({"empty"})) >= 1


\* The text of the record matched in logged iteration n.
MatchedText(n) ==
  SubSeq(file_text, scan_log[n].from + scan_log[n].start + 1,
         scan_log[n].from + scan_log[n].end)

\* The record handler rejected the record of iteration n: its date and time
\* fields are no date (the firewall plugin raises no parse error for a key of
\* its own grammar).
Rejected(n) == scan_log[n].kind \in Matches /\ MatchedText(n)[1] = "B"

C14_MatchAtLineStart ==
  \A n \in LogIndexes(Matches) : scan_log[n].start = 0

\* C15: the scan ends as exhausted only when the buffer and the stream are both
\* empty: every character of the file, and so every line, was taken off the
\* buffer by a match or by a reported or empty line.
C15_ExhaustedMeansAllRead ==
  scan_outcome = "exhausted" =>
    /\ text_reader.lines = <<>>
    /\ text_reader.offset = Len(file_text)
    /\ Consumed(text_reader) = Len(file_text)

\* The logged iterations in which _ParseString failed on a non-empty line.
Failures == {n \in LogIndexes(Consuming) : ~scan_log[n].dispatched /\ scan_log[n].line # <<>>}

\* The preview of a line as the specification words it: the line verbatim when
\* it has at most 80 characters, else its first 77 characters and '...'.
IsPreviewOf(preview, line) ==
  IF Len(line) <= 80 THEN preview = line
  ELSE /\ Len(preview) = 80
       /\ SubSeq(preview, 1, 77) = SubSeq(line, 1, 77)
       /\ SubSeq(preview, 78, 80) = <<".", ".", ".">>

\* C16: on every scan failure on a non-empty line the loop consumes exactly one
\* line (the text up to the next terminator, and that terminator), emits
\* exactly one warning that carries the line number and the preview of the
\* line, dispatches nothing, and increments the failure counter by exactly 1.
C16_FailureConsumesOneLine ==
  \A n \in Failures :
    LET e == scan_log[n]
    IN /\ e.error \in {"No match found.", "Found a line preceeding match.",
                       "Missing key of line structructure."}
       /\ NL \notin {e.line[i] : i \in 1..Len(e.line)}
       /\ SubSeq(file_text, e.from + 1, e.from + Len(e.line)) = e.line
       /\ \/ e.to = e.from + Len(e.line) + 1 /\ file_text[e.to] = NL
          \/ e.to = e.from + Len(e.line) /\ e.to = Len(file_text)
       /\ Len(e.warnings) = 1
       /\ e.warnings[1].message = "unable to parse log line"
       /\ e.warnings[1].number = Terminators(SubSeq(file_text, 1, e.from)) + 1
       /\ IsPreviewOf(e.warnings[1].text, e.line)
       /\ e.events = <<>>
       /\ e.after = e.before + 1

C16_Witness ==
  \E m, n \in Failures :
    /\ scan_log[m].error = "Found a line preceeding match."
    /\ Len(scan_log[m].line) > 80
    /\ scan_log[n].error = "No match found."
    /\ scan_log[n].warnings[1].number > 1

\* The number of failures logged since the last match (or since the scan began).
FailuresSinceMatch ==
  Cardinality({n \in Failures : \A k \in LogIndexes(Matches) : k < n})

CounterCounts ==
  /\ scan_failures = FailuresSinceMatch
  /\ \A n \in LogIndexes(Matches) : scan_log[n].after = 0

\* C17 as stated: the counter is between 0 and the threshold, 20.
C17_CounterAtMost20 ==
  /\ scan_failures \in 0..MAXIMUM_CONSECUTIVE_LINE_FAILURES
  /\ CounterCounts

\* C17: the consecutive-failure counter is bounded: in every reachable state of
\* the scan loop it is between 0 and 21 (the threshold + 1, the value at which the
\* next iteration aborts), it is 0 immediately after every successful match,
\* and it equals the number of non-empty unmatched lines handled since the
\* last successful match (or since the scan began).
C17_CounterAtMost21 ==
  /\ scan_failures \in 0..(MAXIMUM_CONSECUTIVE_LINE_FAILURES + 1)
  /\ CounterCounts

C17_Witness ==
  /\ scan_pc = "loop"
  /\ scan_failures = MAXIMUM_CONSECUTIVE_LINE_FAILURES + 1
  /\ \E n \in LogIndexes(Matches) : scan_log[n].before > 0

\* The logged iterations in which ReadLine returned an empty line.
EmptyLinesRead == {n \in LogIndexes(Consuming) : ~scan_log[n].dispatched /\ scan_log[n].line = <<>>}

\* C18: an empty line met by the scan loop is skipped silently: it is consumed
\* (its terminator), emits no warning, is not dispatched and leaves the failure
\* counter as it was, so that the threshold abort comes after 21 reported
\* lines whatever empty lines lie between them.
C18_EmptyLineSkipped ==
  /\ \A n \in EmptyLinesRead :
       LET e == scan_log[n]
       IN /\ e.to = e.from + 1
          /\ file_text[e.to] = NL
          /\ e.warnings = <<>>
          /\ e.events = <<>>
          /\ e.after = e.before
  /\ scan_outcome = "aborted" =>
       FailuresSinceMatch = MAXIMUM_CONSECUTIVE_LINE_FAILURES + 1

C18_Witness ==
  /\ scan_outcome = "aborted"
  /\ \E n \in EmptyLinesRead :
       /\ scan_log[n].before > 0
       /\ \A k \in LogIndexes(Matches) : k < n

\* C19: cancellation is checked at the start of every loop iteration: once the
\* mediator's abort flag is set, the next step of the loop ends the scan with
\* no match attempted, no record dispatched and no warning emitted (not even
\* the summary warning when the counter exceeds 20), and what was logged
\* before remains.
C19_CancelStopsScan ==
  [][(scan_abort /\ scan_pc = "loop") =>
       /\ scan_pc' = "done"
       /\ scan_outcome' \in {"cancelled", "exhausted"}
       /\ Len(scan_log') = Len(scan_log) + 1
       /\ SubSeq(scan_log', 1, Len(scan_log)) = scan_log
       /\ scan_log'[Len(scan_log')].kind \in {"cancel", "exit"}
       /\ scan_log'[Len(scan_log')].warnings = <<>>
       /\ scan_log'[Len(scan_log')].events = <<>>
       /\ ~scan_log'[Len(scan_log')].dispatched
       /\ text_reader' = text_reader]_scanVars

C19_Witness ==
  /\ scan_outcome = "cancelled"
  /\ scan_failures = MAXIMUM_CONSECUTIVE_LINE_FAILURES + 1
  /\ scan_log[Len(scan_log)].kind = "cancel"

\* The logged iterations in which ReadLines raised UnicodeDecodeError.
DecodeFailures == LogIndexes({"decode", "match_decode"})

\* C20: a decode failure raised by the first ReadLines or by the ReadLines
\* behind a match ends the scan: exactly one warning that names a byte offset
\* (that of the stream behind the text read so far) is emitted for it, it is
\* the last thing logged, _ParseLines returns, and the events and warnings of
\* the record handled before the refill are kept.
C20_DecodeFailureEndsScan ==
  \A n \in DecodeFailures :
    LET e == scan_log[n]
        w == e.warnings[Len(e.warnings)]
        decode == {i \in 1..Len(e.warnings) :
                     e.warnings[i].message = "unable to read and decode log line"}
    IN /\ n = Len(scan_log)
       /\ scan_pc = "done"
       /\ scan_outcome = "decode_error"
       /\ Cardinality(decode) = 1
       /\ w.message = "unable to read and decode log line"
       /\ w.number = text_reader.offset
       /\ w.number \in 0..Len(file_text)
       /\ e.kind = "decode" => w.number = 0 /\ ~e.dispatched
       /\ e.kind = "match_decode" => e.dispatched /\ e.after = 0

C20_Witness ==
  /\ scan_outcome = "decode_error"
  /\ scan_log[Len(scan_log)].kind = "match_decode"
  /\ scan_log[Len(scan_log)].warnings[1].number > 0


----------------------------------------------------------------------------
\* Properties of WinFirewallLogTextPlugin._ParseRecord (specification
\* SpecRecord) and of the plugin's scans (specification SpecScan).

\* C22: the firewall plugin's grammar keys and handler keys are the same set:
\* for every key the compiled grammar returns from a scan _ParseRecord has a
\* handler, so the unknown-structure error is not raised in a scan;
\* _ParseRecord called with any other key raises that error, produces no event
\* (and no warning of its own) and leaves the cross-record state unchanged.
C22_KeysAgree ==
  /\ GrammarKeys = HandlerKeys
  /\ SUPPORTED_KEYS = HandlerKeys
  /\ record_called = "scan" =>
       /\ record_key \in HandlerKeys
       /\ ~record_result.raised
  /\ (record_called = "direct" /\ record_key \in HandlerKeys) => ~record_result.raised
  /\ (record_called = "direct" /\ record_key \notin HandlerKeys) =>
       /\ record_result.raised
       /\ record_result.events = <<>>
       /\ record_result.warnings = <<>>
       /\ record_result.st = record_state

C22_Witness ==
  /\ record_called = "direct"
  /\ record_key = "Comment"
  /\ record_structure = <<"T">>
  /\ record_result.raised
  /\ record_state = PluginState("value", "value", FALSE)

\* The warnings of logged iteration n that the record handler emitted.
HandlerWarnings(n) ==
  {i \in 1..Len(scan_log[n].warnings) :
     scan_log[n].warnings[i].message # "unable to read and decode log line"}

RECURSIVE EventsLogged(_)
EventsLogged(n) == IF n = 0 THEN 0 ELSE EventsLogged(n - 1) + Len(scan_log[n].events)

\* C23: in a scan by the firewall plugin every matched data line yields either
\* one event and no warning, or one 'invalid date time value' warning and no
\* event; every matched comment line yields no event and no warning; so the
\* events of a scan are never more than its matched data lines.
C23_OneOutcomePerRecord ==
  /\ \A n \in LogIndexes(Matches) :
       LET e == scan_log[n]
       IN /\ e.key \in {"comment", "logline"}
          /\ e.key = "logline" =>
               \/ Len(e.events) = 1 /\ HandlerWarnings(n) = {}
               \/ /\ e.events = <<>>
                  /\ Cardinality(HandlerWarnings(n)) = 1
                  /\ e.warnings[1].message = "invalid date time value"
          /\ e.key = "comment" => e.events = <<>> /\ HandlerWarnings(n) = {}
  /\ \A n \in 1..Len(scan_log) : n \notin LogIndexes(Matches) => scan_log[n].events = <<>>
  /\ EventsLogged(Len(scan_log))
       <= Cardinality({n \in LogIndexes(Matches) : scan_log[n].key = "logline"})

C23_Witness ==
  /\ scan_pc = "done"
  /\ \E k, m, n \in LogIndexes(Matches) :
       /\ scan_log[k].key = "comment"
       /\ scan_log[m].key = "logline" /\ Len(scan_log[m].events) = 1
       /\ scan_log[n].key = "logline" /\ scan_log[n].events = <<>>

\* C21: for every invalid byte met while an instance P is inside Process,
\* exactly one warning is delivered to the mediator of P's scan, carrying the
\* byte value and P's current stream offset plus the index of the byte in the
\* buffer, however many instances were constructed before or after P.
C21_OneWarningPerInvalidByte ==
  \A k \in 1..Len(error_calls) :
    LET call == error_calls[k]
    IN /\ call.mediator = call.scan_mediator
       /\ call.warnings = <<[byte |-> Padded(call.byte, 2, "0"),
                             offset |-> call.scan_offset + call.index]>>

\* C24: the mediator reference of an instance is set only while that instance
\* is inside Process (None before Process is entered, None again after it
\* returned or raised on any path), and the encoding error handler emits a
\* warning only when the reference of its instance is set.
C24_MediatorOnlyDuringProcess ==
  /\ \A i \in Instances :
       /\ instance_mediator[i] # None => (i = in_process /\ instance_mediator[i] = MediatorOf(i))
       /\ i = in_process => instance_mediator[i] = MediatorOf(i)
  /\ \A k \in 1..Len(error_calls) :
       error_calls[k].warnings # <<>> => error_calls[k].mediator # None

\* Process was left by an error escaping _ParseLines after the handler warned
\* once and, called for another scan, stayed silent once.
C24_Witness ==
  /\ last_exit \in {"seek", "reader", "error"}
  /\ \A i \in Instances : instance_mediator[i] = None
  /\ \E k \in 1..Len(error_calls) : error_calls[k].warnings # <<>>
  /\ \E k \in 1..Len(error_calls) :
       error_calls[k].mediator = None /\ error_calls[k].warnings = <<>>

====
